---- MODULE Spec2Model ----
(***************************************************************************)
(* Ultrasonic-Raycaster, src/main.cpp: the serial read loop of main(), the *)
(* framing of `angle:distance|` tokens, the trail deque (line_deque), the  *)
(* measurement map (arduino_measurements) and the radar frames presented   *)
(* by drawRadar / updateRadar.                                             *)
(*                                                                         *)
(* A std::string is a sequence of one-character strings.  Positions are    *)
(* 0-based as in the code; npos is -1.                                     *)
(***************************************************************************)
EXTENDS Integers, Sequences, FiniteSets, TLC

(***************************************************************************)
(* Bounds of the model.                                                    *)
(***************************************************************************)
\* tokens per short input stream
MaxTokens == 2
\* bytes one read() delivers at most in the model (the code allows 255)
MaxChunk == 12
\* tokens of the long servo-sweep stream (more than the trail holds)
MaxSweep == 42
\* bytes of the stream that never sends a frame delimiter (more than buffer)
MaxFlood == 257

(***************************************************************************)
(* Program constants.                                                      *)
(***************************************************************************)
\* sizeof(buffer), main.cpp:206
BufSize == 256
\* capacity of line_deque, main.cpp:142
TrailCap == 40
\* upper limit of both distance bands, main.cpp:150, 157 and 235
FarLimit == 50
\* lower limit of the map band, main.cpp:235
MapNear == 1
\* lower limit of the blip band, main.cpp:150
BlipNear == 2
\* length of a trail line, main.cpp:149
TrailLen == 100
\* length of a guide line, main.cpp:105
GuideLen == 104
\* green of the newest trail line before fading, main.cpp:149
BaseGreen == 200
\* red of a blip before fading, main.cpp:151
BaseRed == 255
\* fade step per trail entry, main.cpp:148
FadeStep == 5
\* std::string::npos, the "not found" result of find (0-based positions)
npos == -1
\* largest value of int: std::stoi throws std::out_of_range beyond it
INT_MAX == 2147483647

(***************************************************************************)
(* std::string operations used by main().                                  *)
(***************************************************************************)
Min(a, b) == IF a < b THEN a ELSE b

\* s.find(c): 0-based position of the first c in s, npos when there is none
Find(s, c) ==
    IF \E i \in 1..Len(s) : s[i] = c
    THEN (CHOOSE i \in 1..Len(s) : s[i] = c /\ \A j \in 1..(i - 1) : s[j] # c) - 1
    ELSE npos

\* s.substr(pos, n)
SubStr(s, pos, n) == SubSeq(s, pos + 1, Min(pos + n, Len(s)))

\* s.substr(pos): the rest of s from pos
SubStrFrom(s, pos) == SubSeq(s, pos + 1, Len(s))

\* s.erase(0, n): s without its first n characters
Erase(s, n) == SubSeq(s, n + 1, Len(s))

Digits == {"0", "1", "2", "3", "4", "5", "6", "7", "8", "9"}

WhiteSpace == {" ", "\t", "\n", "\r"}

DigitVal(c) ==
    CASE c = "0" -> 0 [] c = "1" -> 1 [] c = "2" -> 2 [] c = "3" -> 3
      [] c = "4" -> 4 [] c = "5" -> 5 [] c = "6" -> 6 [] c = "7" -> 7
      [] c = "8" -> 8 [] c = "9" -> 9

\* value of the digit string s[from..to] (0 for the empty range)
RECURSIVE DigitsValue(_, _, _)
DigitsValue(s, from, to) ==
    IF to < from THEN 0
    ELSE 10 * DigitsValue(s, from, to - 1) + DigitVal(s[to])

\* mutant of Stoi: characters after the number are an error
Stoi_Strict(s) ==
    LET n      == Len(s)
        signed == 1 <= n /\ s[1] \in {"+", "-"}
        first  == IF signed THEN 2 ELSE 1
        mag    == DigitsValue(s, first, n)
    IN  IF n < first \/ \E i \in first..n : s[i] \notin Digits
        THEN [ok |-> FALSE, val |-> 0, what |-> "invalid_argument"]
        ELSE [ok |-> TRUE, val |-> IF signed /\ s[1] = "-" THEN 0 - mag ELSE mag,
              what |-> "none"]

(***************************************************************************)
(* std::stoi(s): skips leading white space, takes an optional sign and the *)
(* longest run of digits, and ignores whatever follows.  It throws         *)
(* std::invalid_argument when there is no digit to convert and             *)
(* std::out_of_range when the value does not fit an int.  The result here  *)
(* is [ok, val, what]: ok = FALSE stands for the exception `what`.         *)
(***************************************************************************)
Stoi(s) ==
    LET n      == Len(s)
        notWs  == {i \in 1..n : s[i] \notin WhiteSpace}
        start  == IF notWs = {} THEN n + 1
                  ELSE CHOOSE i \in notWs : \A j \in notWs : i <= j
        signed == start <= n /\ s[start] \in {"+", "-"}
        first  == IF signed THEN start + 1 ELSE start
        stops  == {i \in first..n : s[i] \notin Digits}
        last   == IF stops = {} THEN n
                  ELSE (CHOOSE i \in stops : \A j \in stops : i <= j) - 1
        mag    == DigitsValue(s, first, last)
        val    == IF signed /\ s[start] = "-" THEN 0 - mag ELSE mag
    IN  IF last < first
        THEN [ok |-> FALSE, val |-> 0, what |-> "invalid_argument"]
        ELSE IF val > INT_MAX \/ val < 0 - INT_MAX - 1
        THEN [ok |-> FALSE, val |-> 0, what |-> "out_of_range"]
        ELSE [ok |-> TRUE, val |-> val, what |-> "none"]

\* decimal digits of a natural number
RECURSIVE NatStr(_)
NatStr(n) ==
    LET d == <<"0", "1", "2", "3", "4", "5", "6", "7", "8", "9">>[(n % 10) + 1]
    IN  IF n < 10 THEN <<d>> ELSE Append(NatStr(n \div 10), d)

\* std::to_string(int)
to_string(n) == IF n < 0 THEN <<"-">> \o NatStr(0 - n) ELSE NatStr(n)

(***************************************************************************)
(* The bytes the serial device sends.  A short stream is up to MaxTokens   *)
(* messages, each followed by the frame delimiter; the messages cover the  *)
(* well-formed token, a repeated angle, a far distance, a non-numeric      *)
(* field, an empty field, a message without field delimiter, the empty     *)
(* message, an angle beyond 180, a negative distance, and fields with      *)
(* characters after the number.  The sweep stream is what a servo sweeping *)
(* 0..180..0 in steps of SweepStep sends.  The flood stream is a device    *)
(* that never sends the frame delimiter.                                   *)
(***************************************************************************)
Messages ==
    { <<"3", "0", ":", "2", "0">>,
      <<"3", "0", ":", "5">>,
      <<"9", "0", ":", "5", "0">>,
      <<"2", "0", "0", ":", "a", "b", "c">>,
      <<":">>,
      <<>>,
      <<"a", "b">>,
      <<"2", "0", "0", ":", "5">>,
      <<"3", "0", ":", "-", "4">>,
      <<"1", "2", "x", ":", "7">>,
      <<"3", "0", ":", "2", "0", ".", "5">>,
      <<"1", ":", "2", ":", "3">> }

RECURSIVE StreamsOf(_)
StreamsOf(n) ==
    IF n = 0 THEN {<<>>}
    ELSE LET S == StreamsOf(n - 1)
         IN  S \cup {s \o m \o <<"|">> : s \in S, m \in Messages}

SweepStep == 15

SweepDists == <<2, 20, 3, 49, 5, 1, 50>>

SweepAngle(i) ==
    LET half == 180 \div SweepStep
        k    == (i - 1) % (2 * half)
    IN  IF k <= half THEN SweepStep * k ELSE SweepStep * (2 * half - k)

SweepDist(i) == SweepDists[((i - 1) % Len(SweepDists)) + 1]

RECURSIVE SweepStream(_)
SweepStream(n) ==
    IF n = 0 THEN <<>>
    ELSE SweepStream(n - 1) \o to_string(SweepAngle(n)) \o <<":">>
             \o to_string(SweepDist(n)) \o <<"|">>

\* n bytes without a frame delimiter
FloodStream(n) == [i \in 1..n |-> IF i % 4 = 0 THEN ":" ELSE "7"]

Streams ==
    StreamsOf(MaxTokens) \cup {SweepStream(MaxSweep)} \cup {FloodStream(MaxFlood)}

(***************************************************************************)
(* Frames.  A cv::Mat is described by what has been drawn on it: the       *)
(* template of drawRadar, the trail lines, the blips and the info text.    *)
(***************************************************************************)
EmptyMat ==
    [template |-> FALSE, rings |-> {}, guides |-> {},
     lines |-> <<>>, blips |-> <<>>, text |-> <<>>]

\* the frame drawRadar builds, main.cpp:94-117
Template ==
    [template |-> TRUE,
     rings    |-> {20 * radius : radius \in 1..5},
     guides   |-> {[angle |-> 30 * angle, length |-> GuideLen] : angle \in 1..5},
     lines    |-> <<>>, blips |-> <<>>, text |-> <<>>]

\* mutant of ColorChange: color_change starts at the fade step, not at 0
ColorChange_StartsAtStep(i) == FadeStep * (i + 1)

\* color_change when the loop of updateRadar handles the entry at 1-based
\* position i of line_deque, main.cpp:145-148
ColorChange(i) == FadeStep * i

\* the trail line of the entry at position i, main.cpp:149
TrailLine(dq, i) ==
    [angle |-> dq[i][1], length |-> TrailLen, green |-> BaseGreen - ColorChange(i)]

\* mutant of HasBlip: the lower limit is the one of the map band
HasBlip_MapBand(line) == line[2] < FarLimit /\ line[2] > MapNear

\* whether an entry gets a blip, main.cpp:150
HasBlip(line) == line[2] < FarLimit /\ line[2] > BlipNear

\* mutant of Blip: the red fades by color_change, without the factor 1.4
Blip_NoFactor(dq, i) ==
    [index |-> i, angle |-> dq[i][1], length |-> dq[i][2] * 2,
     red |-> BaseRed - ColorChange(i)]

\* the blip of the entry at position i, main.cpp:151 (color_change*1.4)
Blip(dq, i) ==
    [index |-> i, angle |-> dq[i][1], length |-> dq[i][2] * 2,
     red |-> BaseRed - (ColorChange(i) * 14) \div 10]

RECURSIVE BlipsOf(_, _)
BlipsOf(dq, i) ==
    IF i = 0 THEN <<>>
    ELSE IF HasBlip(dq[i]) THEN Append(BlipsOf(dq, i - 1), Blip(dq, i))
    ELSE BlipsOf(dq, i - 1)

\* mutant of InfoText: the far limit itself is still shown as a number
InfoText_Inclusive(degree, distanceCM) ==
    <<to_string(degree),
      IF distanceCM <= FarLimit
      THEN to_string(distanceCM) \o <<" ", "c", "m">>
      ELSE <<"N", "o", "t", "h", "i", "n", "g">> >>

\* the text of the info bar, main.cpp:156-161
InfoText(degree, distanceCM) ==
    <<to_string(degree),
      IF distanceCM < FarLimit
      THEN to_string(distanceCM) \o <<" ", "c", "m">>
      ELSE <<"N", "o", "t", "h", "i", "n", "g">> >>

\* the frame updateRadar has composed when it presents it, main.cpp:145-161
Composed(frame, dq, degree, distanceCM) ==
    [frame EXCEPT !.lines = [i \in 1..Len(dq) |-> TrailLine(dq, i)],
                  !.blips = BlipsOf(dq, Len(dq)),
                  !.text  = InfoText(degree, distanceCM)]

\* mutant of PushFront: the capacity check reads >= instead of >
PushFront_OffByOne(dq, rec) ==
    LET pushed == <<rec>> \o dq
    IN  IF Len(pushed) >= TrailCap THEN SubSeq(pushed, 1, Len(pushed) - 1)
        ELSE pushed

\* line_deque after push_front and the capacity check, main.cpp:140-142
PushFront(dq, rec) ==
    LET pushed == <<rec>> \o dq
    IN  IF Len(pushed) > TrailCap THEN SubSeq(pushed, 1, Len(pushed) - 1)
        ELSE pushed

\* mutant of Storable: the count(degree) == 0 test is missing
Storable_NoCountCheck(table, degree, distanceCM) ==
    distanceCM < FarLimit /\ distanceCM > MapNear

\* mutant of Storable: the band includes its limits
Storable_Inclusive(table, degree, distanceCM) ==
    distanceCM <= FarLimit /\ distanceCM >= MapNear /\ degree \notin DOMAIN table

\* the condition under which a record enters the map, main.cpp:235
Storable(table, degree, distanceCM) ==
    distanceCM < FarLimit /\ distanceCM > MapNear /\ degree \notin DOMAIN table

\* arduino_measurements[degree] = distanceCM, main.cpp:236
Insert(table, degree, distanceCM) ==
    [a \in DOMAIN table \cup {degree} |->
        IF a = degree THEN distanceCM ELSE table[a]]

(***************************************************************************)
(* State.                                                                  *)
(***************************************************************************)
VARIABLES
    wire,                  \* bytes the device has yet to deliver
    received,              \* history: every byte read() has returned so far
    pc,                    \* position of main()
    sys,                   \* outcome of open, tcgetattr and tcsetattr
    exit_status,           \* <<>> while running, <<1>> after return 1
    err,                   \* what has been written to std::cerr
    bytes_read,            \* <<n>> while a read() result n <= 0 is tested, else <<>>
    data,                  \* std::string data (the residue)
    message,               \* std::string message of the current iteration
    cur,                   \* <<degree, distanceCM>> of the current iteration
    line_deque,            \* the trail, front first
    arduino_measurements,  \* the map angle -> distance
    radar,                 \* cv::Mat radar, the frame being drawn
    larger_frame,          \* the frame last handed to imshow
    records,               \* history: the records handed to updateRadar
    events,                \* history: push / show / table steps, in order
    call,                  \* arguments of a call of the polar transform
    result                 \* <<>>, or the function called and the point it gave

vars == <<wire, received, pc, sys, exit_status, err, bytes_read, data, message, cur,
          line_deque, arduino_measurements, radar, larger_frame, records,
          events, call, result>>

input   == <<wire, received>>
session == <<line_deque, arduino_measurements>>
frames  == <<radar, larger_frame>>
locals  == <<message, cur>>
history == <<records, events>>
geometry == <<call, result>>

NoTable == [a \in {} |-> 0]

Init ==
    /\ wire \in Streams
    /\ received = <<>>
    /\ pc = "start"
    /\ sys = [open |-> "pending", tcgetattr |-> "pending", tcsetattr |-> "pending"]
    /\ exit_status = <<>>
    /\ err = <<>>
    /\ bytes_read = <<>>
    /\ data = <<>>
    /\ message = <<>>
    /\ cur = <<>>
    /\ line_deque = <<>>
    /\ arduino_measurements = NoTable
    /\ radar = EmptyMat
    /\ larger_frame = EmptyMat
    /\ records = <<>>
    /\ events = <<>>
    /\ call = <<>>
    /\ result = <<>>

(***************************************************************************)
(* The polar transform of drawLineAtAngle, main.cpp:49-55, and of          *)
(* calculate_circle_point, main.cpp:76-81.  Both compute                   *)
(*     int end_x = start.x + cos(angle_radians) * length                   *)
(*     int end_y = start.y - sin(angle_radians) * length                   *)
(* in double and convert the sum to int, which truncates toward zero.      *)
(* The transform is modelled at the angles whose cosine and sine are, as   *)
(* doubles, either exactly -1, 0 or 1 or a value of magnitude below        *)
(* 2^-50: the multiples of 90 degrees.  Such a small value is kept in      *)
(* units of 2^-70.                                                         *)
(***************************************************************************)
\* const cv::Point circle_center(width/2, height-20), main.cpp:31
circle_center == <<120, 120>>

\* the angles at which the transform is applied
GeomAngles == {0, 90, 180, 270}

\* the coordinates of the start points the transform is applied to
GeomCoords == {-5, 0, 120}

\* the largest length the transform is applied to
MaxLength == 104

\* cos(angle * (M_PI / 180)) in double: cos of the double nearest to pi/2 is
\* 6.123233995736766e-17, of the double nearest to 3*pi/2 it is
\* -1.8369701987210297e-16
Cos(angle) ==
    CASE angle = 0   -> [unit |-> 1, tiny |-> 0]
      [] angle = 90  -> [unit |-> 0, tiny |-> 72290]
      [] angle = 180 -> [unit |-> -1, tiny |-> 0]
      [] angle = 270 -> [unit |-> 0, tiny |-> -216871]

\* sin(angle * (M_PI / 180)) in double: sin of the double nearest to pi is
\* 1.2246467991473532e-16
Sin(angle) ==
    CASE angle = 0   -> [unit |-> 0, tiny |-> 0]
      [] angle = 90  -> [unit |-> 1, tiny |-> 0]
      [] angle = 180 -> [unit |-> 0, tiny |-> 144581]
      [] angle = 270 -> [unit |-> -1, tiny |-> 0]

Abs(n) == IF n < 0 THEN -n ELSE n

RECURSIVE Pow2(_)
Pow2(e) == IF e = 0 THEN 1 ELSE 2 * Pow2(e - 1)

\* the exponent of the double n >= 1: the largest e with 2^e <= n
RECURSIVE Exponent(_)
Exponent(n) == IF n < 2 THEN 0 ELSE 1 + Exponent(n \div 2)

\* half the distance, in units of 2^-70, from the double X # 0 to its
\* neighbour (53-bit significand): 2^(e-53), or 2^(e-54) toward zero when
\* |X| is the power of two 2^e
HalfGap(X, toward_zero) ==
    LET e == Exponent(Abs(X))
    IN  IF toward_zero /\ Abs(X) = Pow2(e) THEN Pow2(e + 16) ELSE Pow2(e + 17)

\* (int)(X + t) for an int X and a double t # 0 of t * 2^-70: the sum is
\* rounded to the nearest double, which is X itself when t is below half
\* the gap, and the conversion to int truncates toward zero
TruncSum(X, t) ==
    IF X = 0 THEN 0
    ELSE LET toward_zero == (t > 0) # (X > 0)
         IN  IF Abs(t) < HalfGap(X, toward_zero) THEN X
             ELSE IF ~toward_zero THEN X
             ELSE IF X < 0 THEN X + 1 ELSE X - 1

\* (int)(X + sign * trig * length), main.cpp:53-54 and main.cpp:78-79
Coord(X, trig, length, sign) ==
    IF trig.tiny = 0 \/ length = 0
    THEN X + sign * trig.unit * length
    ELSE TruncSum(X, sign * trig.tiny * length)

\* cv::Point(end_x, end_y) of drawLineAtAngle, main.cpp:50-55
LineEnd(start, angle, length) ==
    <<Coord(start[1], Cos(angle), length, 1),
      Coord(start[2], Sin(angle), length, -1)>>

\* calculate_circle_point, main.cpp:76-81
calculate_circle_point(angle, length) ==
    <<Coord(circle_center[1], Cos(angle), length, 1),
      Coord(circle_center[2], Sin(angle), length, -1)>>

(***************************************************************************)
(* Start-up, main.cpp:171-202.                                             *)
(***************************************************************************)
\* drawRadar(radar) before the port is opened, main.cpp:175
Start ==
    /\ pc = "start"
    /\ radar' = Template
    /\ larger_frame' = Template
    /\ pc' = "open"
    /\ UNCHANGED <<input, bytes_read, sys, exit_status, err, data, locals,
                   session, history>>
    /\ UNCHANGED geometry

\* open() and the check of its result, main.cpp:179-184
OpenPort ==
    /\ pc = "open"
    /\ \E ok \in BOOLEAN :
         IF ok
         THEN /\ sys' = [sys EXCEPT !.open = "ok"]
              /\ pc' = "tcgetattr"
              /\ UNCHANGED <<err, exit_status>>
         ELSE /\ sys' = [sys EXCEPT !.open = "fail"]
              /\ err' = Append(err, <<"Error opening serial port">>)
              /\ exit_status' = <<1>>
              /\ pc' = "exited"
    /\ UNCHANGED <<input, bytes_read, data, locals, session, frames, history>>
    /\ UNCHANGED geometry

\* tcgetattr() and the check of its result, main.cpp:186-191
GetAttr ==
    /\ pc = "tcgetattr"
    /\ \E ok \in BOOLEAN :
         IF ok
         THEN /\ sys' = [sys EXCEPT !.tcgetattr = "ok"]
              /\ pc' = "tcsetattr"
              /\ UNCHANGED <<err, exit_status>>
         ELSE /\ sys' = [sys EXCEPT !.tcgetattr = "fail"]
              /\ err' = Append(err, <<"Error getting terminal attributes">>)
              /\ exit_status' = <<1>>
              /\ pc' = "exited"
    /\ UNCHANGED <<input, bytes_read, data, locals, session, frames, history>>
    /\ UNCHANGED geometry

\* tcsetattr(): its result is not looked at, main.cpp:193-207
SetAttr ==
    /\ pc = "tcsetattr"
    /\ \E ok \in BOOLEAN :
         sys' = [sys EXCEPT !.tcsetattr = IF ok THEN "ok" ELSE "fail"]
    /\ pc' = "read"
    /\ UNCHANGED <<input, bytes_read, exit_status, err, data, locals, session,
                   frames, history>>
    /\ UNCHANGED geometry

(***************************************************************************)
(* The read loop, main.cpp:209-243.                                        *)
(***************************************************************************)
\* the byte counts one read() may return for the bytes waiting on the wire
ChunkSizes == 1..Min(Min(Len(wire), MaxChunk), BufSize - 1)

\* mutant of Read: data is cut to the size of buffer after the append
Read_Capped ==
    /\ pc = "read"
    /\ \E n \in ChunkSizes :
         LET buffer == SubSeq(wire, 1, n)
         IN  /\ data' = SubStr(data \o buffer, 0, BufSize - 1)
             /\ received' = received \o buffer
             /\ wire' = SubSeq(wire, n + 1, Len(wire))
    /\ pc' = "frame"
    /\ UNCHANGED <<sys, exit_status, err, bytes_read, locals, session, frames,
                   history>>
    /\ UNCHANGED geometry

\* mutant of Read: the bytes read replace data instead of being appended
Read_Overwrite ==
    /\ pc = "read"
    /\ \E n \in ChunkSizes :
         LET buffer == SubSeq(wire, 1, n)
         IN  /\ data' = buffer
             /\ received' = received \o buffer
             /\ wire' = SubSeq(wire, n + 1, Len(wire))
    /\ pc' = "frame"
    /\ UNCHANGED <<sys, exit_status, err, bytes_read, locals, session, frames,
                   history>>
    /\ UNCHANGED geometry

\* read() returns n > 0 bytes, which are appended to data, main.cpp:210-214
Read ==
    /\ pc = "read"
    /\ \E n \in ChunkSizes :
         LET buffer == SubSeq(wire, 1, n)
         IN  /\ data' = data \o buffer
             /\ received' = received \o buffer
             /\ wire' = SubSeq(wire, n + 1, Len(wire))
    /\ pc' = "frame"
    /\ UNCHANGED <<sys, exit_status, err, bytes_read, locals, session, frames,
                   history>>
    /\ UNCHANGED geometry

\* mutant of ReadNothing: a read() that returns no bytes resets data
ReadNothing_Reset ==
    /\ pc = "read"
    /\ \E n \in {0, -1} : bytes_read' = <<n>>
    /\ data' = <<>>
    /\ pc' = "read_empty"
    /\ UNCHANGED <<input, sys, exit_status, err, locals, session, frames, history>>
    /\ UNCHANGED geometry

\* read() returns 0 or -1 (the port is opened O_NDELAY, so -1 is what it
\* returns while no byte is waiting), main.cpp:210-211
ReadNothing ==
    /\ pc = "read"
    /\ \E n \in {0, -1} : bytes_read' = <<n>>
    /\ pc' = "read_empty"
    /\ UNCHANGED <<input, sys, exit_status, err, data, locals, session, frames,
                   history>>
    /\ UNCHANGED geometry

\* bytes_read > 0 is false: the body of the if is skipped and the loop
\* reads again, main.cpp:213 and 242-243
SkipBody ==
    /\ pc = "read_empty"
    /\ ~(bytes_read[1] > 0)
    /\ bytes_read' = <<>>
    /\ pc' = "read"
    /\ UNCHANGED <<input, sys, exit_status, err, data, locals, session, frames,
                   history>>
    /\ UNCHANGED geometry

\* mutant of Frame: data is cleared when no frame delimiter is left
Frame_Flush ==
    /\ pc = "frame"
    /\ LET measurement_delimiter_pos == Find(data, "|")
       IN  IF measurement_delimiter_pos # npos
           THEN /\ message' = SubStr(data, 0, measurement_delimiter_pos)
                /\ data' = Erase(data, measurement_delimiter_pos + 1)
                /\ pc' = "parse"
           ELSE /\ pc' = "read"
                /\ data' = <<>>
                /\ UNCHANGED message
    /\ UNCHANGED <<input, bytes_read, sys, exit_status, err, cur, session,
                   frames, history>>
    /\ UNCHANGED geometry

\* the condition of the inner while: a frame delimiter is found and the
\* message before it is cut off data, main.cpp:218-220
Frame ==
    /\ pc = "frame"
    /\ LET measurement_delimiter_pos == Find(data, "|")
       IN  IF measurement_delimiter_pos # npos
           THEN /\ message' = SubStr(data, 0, measurement_delimiter_pos)
                /\ data' = Erase(data, measurement_delimiter_pos + 1)
                /\ pc' = "parse"
           ELSE /\ pc' = "read"
                /\ UNCHANGED <<message, data>>
    /\ UNCHANGED <<input, bytes_read, sys, exit_status, err, cur, session,
                   frames, history>>
    /\ UNCHANGED geometry

\* the two fields of a message that has a field delimiter, main.cpp:226, 229
DegreeField(msg) == Stoi(SubStr(msg, 0, Find(msg, ":")))
DistanceField(msg) == Stoi(SubStrFrom(msg, Find(msg, ":") + 1))

\* mutant of ParseInvalid: the rest of data is thrown away with the message
ParseInvalid_Flush ==
    /\ pc = "parse"
    /\ Find(message, ":") = npos
    /\ err' = Append(err, <<"Invalid message format", message>>)
    /\ message' = <<>>
    /\ data' = <<>>
    /\ pc' = "frame"
    /\ UNCHANGED <<input, bytes_read, sys, exit_status, cur, session, frames,
                   history>>
    /\ UNCHANGED geometry

\* a message without ':' is written to std::cerr and dropped, main.cpp:223-240
ParseInvalid ==
    /\ pc = "parse"
    /\ Find(message, ":") = npos
    /\ err' = Append(err, <<"Invalid message format", message>>)
    /\ message' = <<>>
    /\ pc' = "frame"
    /\ UNCHANGED <<input, bytes_read, sys, exit_status, data, cur, session,
                   frames, history>>
    /\ UNCHANGED geometry

\* std::stoi throws on one of the fields; nothing catches the exception, so
\* std::terminate ends the process, main.cpp:226-229
ParseThrow ==
    /\ pc = "parse"
    /\ Find(message, ":") # npos
    /\ ~DegreeField(message).ok \/ ~DistanceField(message).ok
    /\ pc' = "aborted"
    /\ UNCHANGED <<input, bytes_read, sys, exit_status, err, data, locals,
                   session, frames, history>>
    /\ UNCHANGED geometry

\* both fields convert: updateRadar is called with them, main.cpp:223-232
ParseRecord ==
    /\ pc = "parse"
    /\ Find(message, ":") # npos
    /\ DegreeField(message).ok /\ DistanceField(message).ok
    /\ cur' = <<DegreeField(message).val, DistanceField(message).val>>
    /\ records' = Append(records, cur')
    /\ pc' = "update_draw"
    /\ UNCHANGED <<input, bytes_read, sys, exit_status, err, data, message,
                   session, frames, events>>
    /\ UNCHANGED geometry

\* updateRadar: drawRadar(frame) rebuilds and presents the template,
\* main.cpp:139 (92-122)
UpdateDraw ==
    /\ pc = "update_draw"
    /\ radar' = Template
    /\ larger_frame' = Template
    /\ pc' = "update_push"
    /\ UNCHANGED <<input, bytes_read, sys, exit_status, err, data, locals,
                   session, history>>
    /\ UNCHANGED geometry

\* updateRadar: push_front and the capacity check, main.cpp:140-142
UpdatePush ==
    /\ pc = "update_push"
    /\ line_deque' = PushFront(line_deque, cur)
    /\ events' = Append(events, <<"push", cur>>)
    /\ pc' = "update_show"
    /\ UNCHANGED <<input, bytes_read, sys, exit_status, err, data, locals,
                   arduino_measurements, frames, records>>
    /\ UNCHANGED geometry

\* mutant of UpdateShow: the loop continues right after updateRadar, so the
\* conditional insert is skipped
UpdateShow_Continue ==
    /\ pc = "update_show"
    /\ radar' = Composed(radar, line_deque, cur[1], cur[2])
    /\ larger_frame' = radar'
    /\ events' = Append(events, <<"show", cur>>)
    /\ message' = <<>>
    /\ cur' = <<>>
    /\ pc' = "frame"
    /\ UNCHANGED <<input, bytes_read, sys, exit_status, err, data, session,
                   records>>
    /\ UNCHANGED geometry

\* updateRadar: trail lines, blips and text are drawn and the frame is
\* presented, main.cpp:144-166
UpdateShow ==
    /\ pc = "update_show"
    /\ radar' = Composed(radar, line_deque, cur[1], cur[2])
    /\ larger_frame' = radar'
    /\ events' = Append(events, <<"show", cur>>)
    /\ pc' = "store"
    /\ UNCHANGED <<input, bytes_read, sys, exit_status, err, data, locals,
                   session, records>>
    /\ UNCHANGED geometry

\* the conditional insert into arduino_measurements, main.cpp:234-237
Store ==
    /\ pc = "store"
    /\ arduino_measurements' =
         IF Storable(arduino_measurements, cur[1], cur[2])
         THEN Insert(arduino_measurements, cur[1], cur[2])
         ELSE arduino_measurements
    /\ events' = Append(events, <<"table", cur>>)
    /\ message' = <<>>
    /\ cur' = <<>>
    /\ pc' = "frame"
    /\ UNCHANGED <<input, bytes_read, sys, exit_status, err, data, line_deque,
                   frames, records>>
    /\ UNCHANGED geometry

Next ==
    \/ Start
    \/ OpenPort
    \/ GetAttr
    \/ SetAttr
    \/ Read
    \/ ReadNothing
    \/ SkipBody
    \/ Frame
    \/ ParseInvalid
    \/ ParseThrow
    \/ ParseRecord
    \/ UpdateDraw
    \/ UpdatePush
    \/ UpdateShow
    \/ Store

Spec == Init /\ [][Next]_vars

(***************************************************************************)
(* The polar transform applied on its own: a call with a start point, an   *)
(* angle and a length, then the point one of the two functions returns.    *)
(***************************************************************************)
program == <<wire, received, pc, sys, exit_status, err, bytes_read, data,
             message, cur, line_deque, arduino_measurements, radar,
             larger_frame, records, events>>

InitGeom ==
    /\ wire = <<>>
    /\ received = <<>>
    /\ pc = "start"
    /\ sys = [open |-> "pending", tcgetattr |-> "pending", tcsetattr |-> "pending"]
    /\ exit_status = <<>>
    /\ err = <<>>
    /\ bytes_read = <<>>
    /\ data = <<>>
    /\ message = <<>>
    /\ cur = <<>>
    /\ line_deque = <<>>
    /\ arduino_measurements = NoTable
    /\ radar = EmptyMat
    /\ larger_frame = EmptyMat
    /\ records = <<>>
    /\ events = <<>>
    /\ call \in [start : GeomCoords \X GeomCoords, angle : GeomAngles,
                 length : 0..MaxLength]
    /\ result = <<>>

\* drawLineAtAngle(frame, start, angle, length, color, with_text): the end
\* point of the line, main.cpp:50-55
DrawLineAtAngle ==
    /\ result = <<>>
    /\ call # <<>>
    /\ result' = [fn |-> "drawLineAtAngle",
                  point |-> LineEnd(call.start, call.angle, call.length)]
    /\ UNCHANGED <<call, program>>

\* calculate_circle_point(angle, length), main.cpp:76-81
CalculateCirclePoint ==
    /\ result = <<>>
    /\ call # <<>>
    /\ result' = [fn |-> "calculate_circle_point",
                  point |-> calculate_circle_point(call.angle, call.length)]
    /\ UNCHANGED <<call, program>>

NextGeom ==
    \/ DrawLineAtAngle
    \/ CalculateCirclePoint

SpecGeom == InitGeom /\ [][NextGeom]_vars

TypeOK ==
    /\ pc \in {"start", "open", "tcgetattr", "tcsetattr", "read", "read_empty", "frame",
               "parse",
               "update_draw", "update_push", "update_show", "store", "exited",
               "aborted"}
    /\ exit_status \in {<<>>, <<1>>}
    /\ bytes_read \in {<<>>, <<0>>, <<-1>>}
    /\ Len(line_deque) <= TrailCap

(***************************************************************************)
(* The run in which a whole byte string arrives in a single read: the      *)
(* inner while of main.cpp:218-241 applied to it, giving the records       *)
(* handed to updateRadar, the residue left in data and whether an uncaught *)
(* exception ended the run.                                                *)
(***************************************************************************)
RECURSIVE FeedWhole(_, _)
FeedWhole(d, recs) ==
    LET pos == Find(d, "|")
        msg == SubStr(d, 0, pos)
        rest == Erase(d, pos + 1)
    IN  IF pos = npos
        THEN [records |-> recs, residue |-> d, aborted |-> FALSE]
        ELSE IF Find(msg, ":") = npos
        THEN FeedWhole(rest, recs)
        ELSE IF DegreeField(msg).ok /\ DistanceField(msg).ok
        THEN FeedWhole(rest, Append(recs, <<DegreeField(msg).val,
                                           DistanceField(msg).val>>))
        ELSE [records |-> recs, residue |-> rest, aborted |-> TRUE]

(***************************************************************************)
(* Vocabulary of the properties.                                           *)
(***************************************************************************)
\* a message of the wire format: decimal digits, ':', decimal digits
WellFormedMessage(m) ==
    LET p == Find(m, ":")
    IN  /\ p # npos
        /\ p >= 1
        /\ p + 1 < Len(m)
        /\ \A i \in 1..Len(m) : i # p + 1 => m[i] \in Digits

\* every '|'-terminated message of s is well-formed
RECURSIVE WellFormedStream(_)
WellFormedStream(s) ==
    LET pos == Find(s, "|")
    IN  IF pos = npos THEN TRUE
        ELSE /\ WellFormedMessage(SubStr(s, 0, pos))
             /\ WellFormedStream(Erase(s, pos + 1))

\* number of frame delimiters in s
BarCount(s) == Cardinality({i \in 1..Len(s) : s[i] = "|"})

\* s without its '|'-terminated messages that have no ':'
RECURSIVE StripInvalid(_)
StripInvalid(s) ==
    LET pos == Find(s, "|")
        msg == SubStr(s, 0, pos)
    IN  IF pos = npos THEN s
        ELSE IF Find(msg, ":") = npos THEN StripInvalid(Erase(s, pos + 1))
        ELSE msg \o <<"|">> \o StripInvalid(Erase(s, pos + 1))

\* what follows the last '|' of s (all of s when it has none)
AfterLastBar(s) ==
    LET bars == {i \in 1..Len(s) : s[i] = "|"}
    IN  IF bars = {} THEN s
        ELSE SubSeq(s, (CHOOSE i \in bars : \A j \in bars : j <= i) + 1, Len(s))

\* the newest n of recs, newest first
NewestFirst(recs, n) ==
    LET k == Min(n, Len(recs))
    IN  [i \in 1..k |-> recs[Len(recs) + 1 - i]]

\* the records whose trail push has happened
Pushed ==
    IF pc \in {"update_draw", "update_push"}
    THEN SubSeq(records, 1, Len(records) - 1) ELSE records

\* the records whose conditional insert has happened
Handled ==
    IF pc \in {"update_draw", "update_push", "update_show", "store"}
    THEN SubSeq(records, 1, Len(records) - 1) ELSE records

InMapBand(d) == 1 < d /\ d < 50

\* C1: for a stream of well-formed tokens, whenever the loop is about to
\* read, the records handed to updateRadar so far are exactly those of the
\* run in which the bytes received so far arrive in a single read, one per
\* frame delimiter received: none lost, duplicated or reordered
C1_ChunkingEquivalence ==
    (pc = "read" /\ WellFormedStream(received \o wire)) =>
        /\ records = FeedWhole(received, <<>>).records
        /\ Len(records) = BarCount(received)

\* C1 witness: a well-formed stream whose second token has been cut by a
\* read boundary after the first one became a record
C1_Witness ==
    /\ pc = "read"
    /\ WellFormedStream(received \o wire)
    /\ Len(records) >= 1
    /\ data # <<>>
    /\ wire # <<>>

\* C2 (as claimed): the parse step of a message that has ':' but a
\* non-numeric field reports the error, leaves trail and map alone and goes
\* on with the next frame
C2_ParseErrorContinues ==
    [][(pc = "parse" /\ Find(message, ":") # npos
          /\ (~DegreeField(message).ok \/ ~DistanceField(message).ok))
        => (/\ pc' = "frame"
            /\ Len(err') = Len(err) + 1
            /\ session' = session)]_vars

\* C3, the step: the parse step of a message without ':' reports it and
\* changes neither trail, map, frames, records nor the residue
C3_DiscardStep ==
    (pc = "parse" /\ Find(message, ":") = npos) =>
        /\ pc' = "frame"
        /\ err' = Append(err, <<"Invalid message format", message>>)
        /\ session' = session
        /\ frames' = frames
        /\ history' = history
        /\ data' = data

\* C3, the effect: whenever the loop is about to read, records and residue
\* are those of the stream with the ':'-less messages (and their '|') cut out
C3_AsIfAbsent ==
    pc = "read" =>
        LET without == FeedWhole(StripInvalid(received), <<>>)
        IN  /\ records = without.records
            /\ data = without.residue

\* C3: a message without ':' produces no record and changes nothing, and
\* the tokens after it are framed and parsed as if it had not been sent
C3_InvalidDiscarded == []C3_AsIfAbsent /\ [][C3_DiscardStep]_vars

\* C3 witness: "ab|" was reported and dropped and the token after it
\* became a record
C3_Witness ==
    /\ pc = "read"
    /\ received = <<"a", "b", "|", "3", "0", ":", "2", "0", "|">>
    /\ Len(err) = 1
    /\ records = << <<30, 20>> >>
    /\ line_deque = << <<30, 20>> >>

\* C4: the trail never holds more than 40 records and is exactly the most
\* recent min(n, 40) of the n records pushed so far, newest first (so the
\* push onto a full trail dropped the oldest entry and nothing else)
C4_TrailNewest40 ==
    /\ Len(line_deque) <= 40
    /\ line_deque = NewestFirst(Pushed, 40)

\* C4 witness: the 41st record has been pushed onto the full trail
C4_Witness ==
    /\ pc = "update_show"
    /\ Len(records) = 41
    /\ Len(line_deque) = 40
    /\ line_deque[1] = records[41]
    /\ line_deque[40] = records[2]

\* C5: no step changes or removes an entry of the map
C5_FirstWriteWins ==
    [][\A a \in DOMAIN arduino_measurements :
          /\ a \in DOMAIN arduino_measurements'
          /\ arduino_measurements'[a] = arduino_measurements[a]]_vars

\* C5 witness: a second record for a stored angle, with another distance of
\* the band, has been handled and the entry is still the first distance
C5_Witness ==
    /\ pc = "frame"
    /\ \E i, j \in 1..Len(records) :
         /\ i < j
         /\ records[i][1] = records[j][1]
         /\ records[i][2] # records[j][2]
         /\ InMapBand(records[i][2]) /\ InMapBand(records[j][2])
         /\ records[i][1] \in DOMAIN arduino_measurements
         /\ arduino_measurements[records[i][1]] = records[i][2]

\* C6: the map holds exactly the angles that have had a record with
\* 1 < distance < 50, each with the distance of the first such record
C6_MapFirstInBand ==
    LET inBand(a) == {i \in 1..Len(Handled) :
                        Handled[i][1] = a /\ InMapBand(Handled[i][2])}
    IN  /\ DOMAIN arduino_measurements =
               {Handled[i][1] : i \in {j \in 1..Len(Handled) : InMapBand(Handled[j][2])}}
        /\ \A a \in DOMAIN arduino_measurements :
               /\ InMapBand(arduino_measurements[a])
               /\ \E i \in inBand(a) :
                    /\ \A j \in inBand(a) : i <= j
                    /\ arduino_measurements[a] = Handled[i][2]

\* C6 witness: an angle saw a record outside the band, then two different
\* distances inside it, and holds the first of these; another angle has
\* only seen distances <= 1 or >= 50 and has no entry
C6_Witness ==
    /\ pc = "frame"
    /\ \E i, j, k \in 1..Len(records) :
         /\ i < j /\ j < k
         /\ records[i][1] = records[j][1] /\ records[j][1] = records[k][1]
         /\ ~InMapBand(records[i][2])
         /\ \A h \in 1..(j - 1) :
              records[h][1] = records[j][1] => ~InMapBand(records[h][2])
         /\ InMapBand(records[j][2]) /\ InMapBand(records[k][2])
         /\ records[j][2] # records[k][2]
         /\ arduino_measurements[records[j][1]] = records[j][2]
    /\ \E i \in 1..Len(records) :
         /\ records[i][2] <= 1
         /\ records[i][1] \notin DOMAIN arduino_measurements

\* C7 (as claimed): every record in the trail or the map has an angle in
\* [0,180] and a distance >= 0
C7_MeasurementsInRange ==
    /\ \A i \in 1..Len(line_deque) :
         /\ line_deque[i][1] \in 0..180
         /\ line_deque[i][2] >= 0
    /\ \A a \in DOMAIN arduino_measurements :
         /\ a \in 0..180
         /\ arduino_measurements[a] >= 0

\* C8: the steps taken for the records are, in order, push - show - table
\* of the first record, then of the second, and so on: each record's three
\* steps are complete before the next record's push, none is skipped or
\* taken twice
C8_StrictOrder ==
    LET kind == <<"push", "show", "table">>
        open == IF pc = "update_show" THEN 1 ELSE IF pc = "store" THEN 2 ELSE 0
    IN  /\ Len(events) = 3 * Len(Handled) + open
        /\ \A i \in 1..Len(events) :
             events[i] = <<kind[((i - 1) % 3) + 1], records[((i - 1) \div 3) + 1]>>

\* C8 witness: two records arrived in the same read (no read is issued
\* while data holds a '|'); the first one's push, show and table steps are
\* done and the inner loop is about to take the second one's token from data
C8_Witness ==
    /\ pc = "frame"
    /\ Len(records) = 1
    /\ events = << <<"push", records[1]>>, <<"show", records[1]>>,
                   <<"table", records[1]>> >>
    /\ Find(data, "|") # npos
    /\ WellFormedMessage(SubStr(data, 0, Find(data, "|")))

\* C9: whenever the loop is about to read, the residue has no '|' and is
\* what was received after the last '|'
C9_ResidueAtRead ==
    pc = "read" =>
        /\ Find(data, "|") = npos
        /\ data = AfterLastBar(received)

\* C9 witness: a read is about to be issued after a frame has been handled
\* (and reported), with the beginning of the next token in the residue
C9_Witness ==
    /\ pc = "read"
    /\ Find(received, "|") # npos
    /\ data # <<>>
    /\ Len(err) >= 1

\* C10 (as claimed): after a failure of open, tcgetattr or tcsetattr the
\* failure has been reported and the process has returned 1
C10_ConfigFailureFatal ==
    (sys.open = "fail" \/ sys.tcgetattr = "fail" \/ sys.tcsetattr = "fail") =>
        /\ pc = "exited"
        /\ exit_status = <<1>>
        /\ err # <<>>

\* the blips of the presented frame that belong to the trail entry at
\* 1-based position i
BlipsAt(i) ==
    {k \in 1..Len(larger_frame.blips) : larger_frame.blips[k].index = i}

\* C11: in a presented frame with a trail overlay, the trail entry at every
\* position has a blip exactly when 2 < distance < 50, and that blip is
\* placed along the entry's angle at length 2 * distance
C11_BlipBand ==
    larger_frame.lines # <<>> =>
        /\ Len(larger_frame.lines) = Len(line_deque)
        /\ \A i \in 1..Len(line_deque) :
             LET d == line_deque[i][2]
             IN  /\ Cardinality(BlipsAt(i)) = (IF 2 < d /\ d < 50 THEN 1 ELSE 0)
                 /\ \A k \in BlipsAt(i) :
                      /\ larger_frame.blips[k].angle = line_deque[i][1]
                      /\ larger_frame.blips[k].length = 2 * d
        /\ \A k \in 1..Len(larger_frame.blips) :
             larger_frame.blips[k].index \in 1..Len(line_deque)

\* C11 witness: a presented trail whose older entries (not the newest) have
\* the distances 1, 2 and 50 without a blip and 49 with a blip at length 98
C11_Witness ==
    /\ pc = "store"
    /\ \E i, j, k, h \in 2..Len(line_deque) :
         /\ line_deque[i][2] = 1 /\ BlipsAt(i) = {}
         /\ line_deque[j][2] = 2 /\ BlipsAt(j) = {}
         /\ line_deque[k][2] = 50 /\ BlipsAt(k) = {}
         /\ line_deque[h][2] = 49
         /\ \E b \in BlipsAt(h) : larger_frame.blips[b].length = 98

\* the characters of s from position from on
Suffix(s, from) == SubSeq(s, from, Len(s))

\* C12: the frame presented for a record shows the record's angle, shows
\* "Nothing" exactly when its distance is >= 50 and otherwise the distance
\* followed by " cm"; the record is at the front of the trail and drawn,
\* whatever its distance
C12_InfoBar ==
    pc = "store" =>
        LET text == larger_frame.text
        IN  /\ Len(text) = 2
            /\ Stoi(text[1]).ok /\ Stoi(text[1]).val = cur[1]
            /\ (text[2] = <<"N", "o", "t", "h", "i", "n", "g">>) <=> (cur[2] >= 50)
            /\ cur[2] < 50 =>
                 /\ Stoi(text[2]).ok /\ Stoi(text[2]).val = cur[2]
                 /\ Len(text[2]) > 3
                 /\ Suffix(text[2], Len(text[2]) - 2) = <<" ", "c", "m">>
                 /\ \A i \in 1..(Len(text[2]) - 3) : text[2][i] \in Digits \cup {"-"}
            /\ line_deque[1] = cur
            /\ larger_frame.lines[1].angle = cur[1]

\* C12 witness: a record with distance 50 has been pushed and presented
\* with the no-detection text, without anything written to std::cerr
C12_Witness ==
    /\ pc = "store"
    /\ cur[2] = 50
    /\ larger_frame.text[2] = <<"N", "o", "t", "h", "i", "n", "g">>
    /\ line_deque[1][2] = 50
    /\ err = <<>>

\* s is a decimal integer literal: an optional '-' and one or more digits
IntegerLiteral(s) ==
    LET body == IF s # <<>> /\ s[1] = "-" THEN Tail(s) ELSE s
    IN  body # <<>> /\ \A i \in 1..Len(body) : body[i] \in Digits

\* s without its leading white space
RECURSIVE DropSpace(_)
DropSpace(s) ==
    IF s # <<>> /\ s[1] \in {" ", "\t", "\n", "\r"} THEN DropSpace(Tail(s)) ELSE s

\* the digits s begins with
RECURSIVE DigitRun(_)
DigitRun(s) ==
    IF s # <<>> /\ s[1] \in Digits THEN <<s[1]>> \o DigitRun(Tail(s)) ELSE <<>>

\* the number a digit string denotes
RECURSIVE NumberOf(_)
NumberOf(ds) ==
    IF ds = <<>> THEN 0
    ELSE 10 * NumberOf(SubSeq(ds, 1, Len(ds) - 1))
           + (CHOOSE k \in 0..9 : NatStr(k) = <<ds[Len(ds)]>>)

\* the integer a field begins with, after white space and an optional sign:
\* [has, val]
LeadingInteger(s) ==
    LET t      == DropSpace(s)
        minus  == t # <<>> /\ t[1] = "-"
        ds     == DigitRun(IF t # <<>> /\ t[1] \in {"+", "-"} THEN Tail(t) ELSE t)
        val    == IF minus THEN 0 - NumberOf(ds) ELSE NumberOf(ds)
    IN  [has |-> ds # <<>> /\ val <= 2147483647 /\ val >= -2147483647 - 1,
         val |-> val]

\* C14 (as claimed): a message becomes a record only if the whole text
\* before its ':' and the whole text after it are integer literals
C14_WholeFieldsOnly ==
    pc = "update_draw" =>
        LET p == Find(message, ":")
        IN  /\ IntegerLiteral(SubStr(message, 0, p))
            /\ IntegerLiteral(SubStrFrom(message, p + 1))

\* C14 (amended): a message with ':' becomes a record exactly when the text
\* before the first ':' and the text after it each begin with an integer;
\* the record holds these two integers and what follows them is ignored
C14_LeadingIntegers ==
    [][(pc = "parse" /\ Find(message, ":") # npos) =>
        LET p  == Find(message, ":")
            f1 == LeadingInteger(SubSeq(message, 1, p))
            f2 == LeadingInteger(SubSeq(message, p + 2, Len(message)))
        IN  /\ (pc' = "update_draw") <=> (f1.has /\ f2.has)
            /\ (pc' = "update_draw") =>
                  /\ cur' = <<f1.val, f2.val>>
                  /\ records' = Append(records, <<f1.val, f2.val>>)]_vars

\* C14 witness: "30:20.5" has been accepted as (30, 20)
C14_Witness ==
    /\ pc = "update_draw"
    /\ message = <<"3", "0", ":", "2", "0", ".", "5">>
    /\ cur = <<30, 20>>
    /\ records[Len(records)] = <<30, 20>>

\* C15 (as claimed): once the trail is non-empty, the frame on the
\* rendering surface always has the trail overlay and the live text
C15_OnlyComposedFramesShown ==
    line_deque # <<>> =>
        /\ larger_frame.lines # <<>>
        /\ larger_frame.text # <<>>

\* C16 (as claimed): the green of a trail line goes below 0 - if it ever
\* does, it does for the oldest line of a full trail drawn
C16_GreenGoesNegative ==
    Len(larger_frame.lines) = 40 =>
        \E i \in 1..Len(larger_frame.lines) : larger_frame.lines[i].green < 0

\* C16 (amended): the green of the trail line at ordinal index i
\* (0 = newest) is 200 - 5 * (i + 1); it is never below 0 and is 0 exactly
\* at index 39, the oldest line of a full trail
C16_GreenNeverNegative ==
    \A k \in 1..Len(larger_frame.lines) :
        LET i == k - 1
            green == larger_frame.lines[k].green
        IN  /\ green = 200 - 5 * (i + 1)
            /\ green >= 0
            /\ (green = 0) <=> (i = 39)

\* C16 witness: a full trail has been drawn and its oldest line has green 0
C16_Witness ==
    /\ pc = "store"
    /\ Len(larger_frame.lines) = 40
    /\ larger_frame.lines[40].green = 0
    /\ larger_frame.lines[1].green = 195

\* C17: as long as no frame delimiter has been received, the residue is all
\* the bytes received, in order, and there is no record, no report, no
\* trail entry and no composed frame
C17_ResidueUncapped ==
    (Find(received, "|") = npos /\ pc \in {"read", "read_empty", "frame"}) =>
        /\ data = received
        /\ records = <<>>
        /\ err = <<>>
        /\ line_deque = <<>>
        /\ larger_frame = Template

\* C17 witness: more bytes than buffer holds have arrived over several
\* reads without a frame delimiter and all of them are in the residue
C17_Witness ==
    /\ pc = "read"
    /\ Find(received, "|") = npos
    /\ Len(received) > 256
    /\ Len(data) = Len(received)

\* the positions of main() inside the read loop
InLoop ==
    pc \in {"read", "read_empty", "frame", "parse", "update_draw", "update_push",
            "update_show", "store"}

\* C18 (as claimed): no step leaves the read loop
C18_LoopNeverLeft == [][InLoop => InLoop']_vars

\* C19: a read that returns 0 or -1 changes neither residue, trail, map,
\* frames nor std::cerr, and the step after it is back at the read
C19_EmptyReadNoEffect ==
    [][/\ (pc = "read" /\ pc' = "read_empty") =>
            /\ bytes_read' \in {<<0>>, <<-1>>}
            /\ UNCHANGED <<data, session, frames, err, input, history>>
       /\ pc = "read_empty" =>
            /\ pc' = "read"
            /\ UNCHANGED <<data, session, frames, err, input, history>>]_vars

\* C19 witness: read() has returned -1 while a residue, a trail entry and
\* a map entry exist and bytes are still to come
C19_Witness ==
    /\ pc = "read_empty"
    /\ bytes_read = <<-1>>
    /\ data # <<>>
    /\ line_deque # <<>>
    /\ DOMAIN arduino_measurements # {}
    /\ wire # <<>>

\* C20: the red of the blip of the trail entry at ordinal index i
\* (0 = newest) is 255 - 7 * (i + 1), which is >= 0 exactly for i <= 35
C20_BlipRed ==
    \A k \in 1..Len(larger_frame.blips) :
        LET i == larger_frame.blips[k].index - 1
            red == larger_frame.blips[k].red
        IN  /\ red = 255 - 7 * (i + 1)
            /\ (red >= 0) <=> (i <= 35)
            /\ i \in 36..39 => red < 0

\* C20 witness: a full trail of 40 entries has been drawn whose four oldest
\* entries are in the blip band and have blips with a negative red
C20_Witness ==
    /\ pc = "store"
    /\ Len(line_deque) = 40
    /\ \A i \in 36..39 :
         \E k \in 1..Len(larger_frame.blips) :
            /\ larger_frame.blips[k].index = i + 1
            /\ larger_frame.blips[k].red < 0

====
